---- MODULE Spec2Model ----
(***************************************************************************)
(* Research-paper assistant: the similarity store (models/vector_store.py) *)
(* and the augmentation orchestrator (main.py process_research_query),     *)
(* with its collaborators reduced to the outcomes the orchestrator sees.   *)
(*                                                                         *)
(* Texts are numbers: 0 is the empty string "", p > 0 is the overall       *)
(* summary generated for paper p.  A paper's title, author list and        *)
(* pdf_url are likewise named by the paper's number.                       *)
(*                                                                         *)
(* Three collaborators are also modelled step by step, each under a        *)
(* specification of its own: download_papers (DownloadSpec),               *)
(* batch_process_papers (BatchSpec) and _extract_text (ExtractSpec).       *)
(***************************************************************************)
EXTENDS Integers, Sequences, FiniteSets, TLC

VARIABLES
    proc,              \* "down" | "up" | "init_raised": the ResearchAssistant object
    store,             \* VectorStore.store, the resident FAISS index
    disk,              \* the snapshot directory: index.faiss and index.pkl
    config,            \* Config.MAX_RESULTS and Config.MAX_PAPERS in force
    pc,                \* position of process_research_query
    query,             \* its argument
    similar_papers,    \* its local similar_papers
    papers,            \* its local papers
    processed_papers,  \* its local processed_papers
    summaries,         \* its local summaries
    response,          \* the value it returned
    calls,             \* collaborator calls made by the query so far, in order
    last_op,           \* the last operation that wrote store or disk, and how it ended
    dl,                \* PaperDownloader.download_papers: its tasks and the papers directory
    bp,                \* PDFProcessor.batch_process_papers: its loop
    ex,                \* PDFProcessor._extract_text: its loop over the pages
    sm,                \* PaperSummarizer.process_all_papers: its loops
    ct,                \* TextProcessor.clean_text: an argument and what it returns
    rl,                \* RateLimiter: its fields, the clock and the callers
    cm                 \* CacheManager: the cache files, the clock and the last call

\* The orchestrator and the store, with the collaborators as single steps.
mainVars == <<proc, store, disk, config, pc, query, similar_papers, papers,
              processed_papers, summaries, response, calls, last_op>>

\* The collaborators that are also modelled step by step, each on its own.
unitVars == <<dl, bp, ex, sm, ct, rl, cm>>

\* What a step of one collaborator leaves alone.
allButDl == <<mainVars, bp, ex, sm, ct, rl, cm>>
allButBp == <<mainVars, dl, ex, sm, ct, rl, cm>>
allButEx == <<mainVars, dl, bp, sm, ct, rl, cm>>
allButSm == <<mainVars, dl, bp, ex, ct, rl, cm>>
allButCt == <<mainVars, dl, bp, ex, sm, rl, cm>>
allButRl == <<mainVars, dl, bp, ex, sm, ct, cm>>
allButCm == <<mainVars, dl, bp, ex, sm, ct, rl>>

vars == <<mainVars, unitVars>>

-----------------------------------------------------------------------------
(* Bounds of the model *)

NPapers == 3        \* papers arXiv knows; query q finds the first q of them
MaxStore == 4       \* vectors the resident index may hold, placeholder included
TestThreshold == 2  \* MAX_PAPERS (and MAX_RESULTS) of the overridden configuration

(* Config, config/config.py *)
MAX_RESULTS == 5
MAX_PAPERS == 10

DefaultConfig == [MAX_RESULTS |-> MAX_RESULTS, MAX_PAPERS |-> MAX_PAPERS]

\* Config's attributes are plain class attributes; a deployment or a test that
\* wants the serve-from-store branch overrides them.
Configs ==
    {DefaultConfig, [MAX_RESULTS |-> TestThreshold, MAX_PAPERS |-> TestThreshold]}

Papers == 1..NPapers
Queries == 0..NPapers

Min(a, b) == IF a < b THEN a ELSE b
Abs(n) == IF n < 0 THEN 0 - n ELSE n

\* The subsequence of s at the positions in keep, in order.
RECURSIVE SelectPositions(_, _, _)
SelectPositions(s, keep, i) ==
    IF i > Len(s) THEN <<>>
    ELSE (IF i \in keep THEN <<s[i]>> ELSE <<>>) \o SelectPositions(s, keep, i + 1)

IsPrefix(s, t) == Len(s) <= Len(t) /\ SubSeq(t, 1, Len(s)) = s

-----------------------------------------------------------------------------
(* The embedding capability and the FAISS index, as vector_store.py uses them *)

\* OpenAIEmbeddings: a text's vector (a point on a line).  Deterministic.
Embed(text) == 2 * text
\* The query's vector: queries fall between the summaries, so ties occur.
EmbedQuery(q) == 2 * q + 1

Distance(u, v) == Abs(u - v)
\* similarity_search_with_relevance_scores: higher is more relevant.
RelevanceScore(d) == 0 - d

EmptyMetadata == [k \in {} |-> 0]
\* FAISS.from_texts([""], embeddings, metadatas=[{}])
PlaceholderDoc == [page_content |-> 0, metadata |-> EmptyMetadata]

NoStore == [index |-> <<>>, docs |-> <<>>]   \* self.store not (yet) assigned

FromTexts(texts, metadatas) ==
    [index |-> [i \in 1..Len(texts) |-> Embed(texts[i])],
     docs  |-> [i \in 1..Len(texts) |->
                  [page_content |-> texts[i], metadata |-> metadatas[i]]]]

NewStore == FromTexts(<<0>>, <<EmptyMetadata>>)

\* MergeFrom, were it to skip documents the docstore already holds.
MergeFromDedup(s, new) ==
    LET fresh == {i \in DOMAIN new.docs :
                    \A j \in DOMAIN s.docs : s.docs[j] # new.docs[i]}
    IN  [index |-> s.index \o SelectPositions(new.index, fresh, 1),
         docs  |-> s.docs \o SelectPositions(new.docs, fresh, 1)]

MergeFrom(s, new) ==
    [index |-> s.index \o new.index, docs |-> s.docs \o new.docs]

\* Index positions, nearest first; equal distances keep insertion order.
RECURSIVE Rank(_, _, _)
Rank(index, qv, cands) ==
    IF cands = {} THEN <<>>
    ELSE LET best == CHOOSE i \in cands : \A j \in cands :
                        \/ Distance(qv, index[i]) < Distance(qv, index[j])
                        \/ /\ Distance(qv, index[i]) = Distance(qv, index[j])
                           /\ i <= j
         IN  <<best>> \o Rank(index, qv, cands \ {best})

\* SimilaritySearchWithRelevanceScores, were k ignored.
SimilaritySearchUnlimited(s, q, k) ==
    LET order == Rank(s.index, EmbedQuery(q), DOMAIN s.index)
    IN  [i \in 1..Len(order) |->
            [doc   |-> s.docs[order[i]],
             score |-> RelevanceScore(Distance(EmbedQuery(q), s.index[order[i]]))]]

SimilaritySearchWithRelevanceScores(s, q, k) ==
    LET order == Rank(s.index, EmbedQuery(q), DOMAIN s.index)
        top   == SubSeq(order, 1, Min(k, Len(order)))
    IN  [i \in 1..Len(top) |->
            [doc   |-> s.docs[top[i]],
             score |-> RelevanceScore(Distance(EmbedQuery(q), s.index[top[i]]))]]

\* SearchSimilar, were the hits scoring below the best possible score dropped.
SearchSimilarAboveThreshold(s, q, limit, search_ok) ==
    IF s = NoStore \/ ~search_ok THEN <<>>
    ELSE LET results == SimilaritySearchWithRelevanceScores(s, q, limit)
             hits == [i \in 1..Len(results) |->
                        [metadata |-> results[i].doc.metadata,
                         score |-> results[i].score]]
         IN  SelectPositions(hits, {i \in DOMAIN hits : hits[i].score >= 0}, 1)

\* SearchSimilar, were the handler of an exception to return what the index
\* holds instead of [].
SearchSimilarFailureReturnsAll(s, q, limit, search_ok) ==
    IF s = NoStore THEN <<>>
    ELSE LET results == SimilaritySearchWithRelevanceScores(s, q, limit)
         IN  [i \in 1..Len(results) |->
                [metadata |-> results[i].doc.metadata, score |-> results[i].score]]

\* VectorStore.search_similar; search_ok = FALSE is any exception of the search
\* (the query's embedding call failing, for one), which the method swallows.
SearchSimilar(s, q, limit, search_ok) ==
    IF s = NoStore \/ ~search_ok THEN <<>>
    ELSE LET results == SimilaritySearchWithRelevanceScores(s, q, limit)
         IN  [i \in 1..Len(results) |->
                [metadata |-> results[i].doc.metadata, score |-> results[i].score]]

-----------------------------------------------------------------------------
(* The snapshot on disk *)

Absent == [exists |-> FALSE, readable |-> FALSE, data |-> <<>>]
Unreadable == [exists |-> TRUE, readable |-> FALSE, data |-> <<>>]
File(data) == [exists |-> TRUE, readable |-> TRUE, data |-> data]

NoSnapshot == [faiss |-> Absent, pkl |-> Absent]

SaveOutcomes == {"ok", "fail_index", "fail_pkl"}

\* SaveLocal, were it to write the docstore pickle only.
SaveLocalDocsOnly(s, d, outcome) ==
    CASE outcome = "ok"         -> [faiss |-> d.faiss, pkl |-> File(s.docs)]
      [] outcome = "fail_index" -> d
      [] outcome = "fail_pkl"   -> [faiss |-> d.faiss, pkl |-> Unreadable]

\* FAISS.save_local as _save_store calls it: index.faiss is written first, then
\* index.pkl.  "fail_index": nothing was written (mkdir or the open failed);
\* "fail_pkl": index.faiss is new and index.pkl was truncated by open(.., "wb").
SaveLocal(s, d, outcome) ==
    CASE outcome = "ok"         -> [faiss |-> File(s.index), pkl |-> File(s.docs)]
      [] outcome = "fail_index" -> d
      [] outcome = "fail_pkl"   -> [faiss |-> File(s.index), pkl |-> Unreadable]

SnapshotExists(d) == d.faiss.exists /\ d.pkl.exists
SnapshotReadable(d) == d.faiss.readable /\ d.pkl.readable

\* FAISS.load_local of a readable snapshot
LoadLocal(d) == [index |-> d.faiss.data, docs |-> d.pkl.data]

\* VectorStore._load_or_create_store: the store it returns, or NoStore when it
\* raises (load_local on an unreadable snapshot; the placeholder's embedding
\* call failing on creation).
LoadOrCreateStore(d, embed_ok) ==
    IF SnapshotExists(d)
    THEN (IF SnapshotReadable(d) THEN LoadLocal(d) ELSE NoStore)
    ELSE (IF embed_ok THEN NewStore ELSE NoStore)

-----------------------------------------------------------------------------
(* The document pipeline's collaborators, by what the orchestrator sees *)

\* PaperDownloader.search_papers: the dict built for arXiv result p.
Paper(p) == [arxiv_id |-> p, title |-> p, authors |-> p, pdf_url |-> p]

\* arXiv's answer to query q, most relevant first, cut to max_results.
SearchPapers(q, max_results) ==
    [i \in 1..Min(q, max_results) |-> Paper(i)]

\* The sections PDFProcessor.process_paper finds non-empty in paper p's PDF,
\* full_text aside: a paper whose first page yields an abstract but which has
\* no section header, one with an introduction header, one with both, and one
\* with only a title line.
SectionsOf(p) ==
    CASE p % 4 = 1 -> {"abstract"}
      [] p % 4 = 2 -> {"introduction"}
      [] p % 4 = 3 -> {"abstract", "introduction"}
      [] OTHER     -> {"title"}

\* process_paper 76-81: the paper dict, updated with its sections.
WithSections(paper) ==
    [arxiv_id |-> paper.arxiv_id, title |-> paper.title,
     authors |-> paper.authors, pdf_url |-> paper.pdf_url,
     sections |-> SectionsOf(paper.arxiv_id)]

\* The LLM calls summarize_paper makes for a paper with these sections.
SummaryCalls(sections) ==
    sections \cup (IF "abstract" \in sections \/ "introduction" \in sections
                   THEN {"overall"} ELSE {})

\* PaperSummarizer.summarize_paper: the keys of the summaries it returns when
\* the LLM calls in failed return nothing ({} stands for None).
SummarizePaper(sections, failed) ==
    {c \in SummaryCalls(sections) : c \notin failed}

\* PaperSummarizer.process_all_papers.  failed[i] are the failing LLM calls of
\* the i-th paper; a paper without summaries is left out.
RECURSIVE ProcessAllPapers(_, _, _)
ProcessAllPapers(ps, failed, i) ==
    IF i > Len(ps) THEN <<>>
    ELSE LET paper == ps[i]
             keys  == SummarizePaper(paper.sections, failed[i])
             entry == [title |-> paper.title, authors |-> paper.authors,
                       url |-> paper.pdf_url, summaries |-> keys]
         IN  (IF keys # {} THEN <<entry>> ELSE <<>>)
                \o ProcessAllPapers(ps, failed, i + 1)

\* Every way the LLM calls of process_all_papers can fail: one set of failing
\* calls per paper.
RECURSIVE LLMFailures(_, _)
LLMFailures(ps, i) ==
    IF i > Len(ps) THEN {<<>>}
    ELSE {<<f>> \o rest : f \in SUBSET SummaryCalls(ps[i].sections),
                          rest \in LLMFailures(ps, i + 1)}

\* The text of the overall summary generated for the paper titled t.
OverallSummary(t) == t

\* MergeRecords, were the test of main.py 129 missing.
MergeRecordsAll(sums, i) ==
    [k \in 1..Len(sums) |->
        [text |-> OverallSummary(sums[k].title),
         metadata |-> [title |-> sums[k].title, authors |-> sums[k].authors,
                       url |-> sums[k].url,
                       summary |-> OverallSummary(sums[k].title)]]]

\* MergeRecords, were only the texts filtered by the test of main.py 129 and
\* the metadata built for every summarized paper.
MergeRecordsMisaligned(sums, i) ==
    LET keep == {j \in DOMAIN sums : "overall" \in sums[j].summaries}
        kept == SelectPositions(sums, keep, 1)
    IN  [k \in 1..Len(kept) |->
            [text |-> OverallSummary(kept[k].title),
             metadata |-> [title |-> sums[k].title, authors |-> sums[k].authors,
                           url |-> sums[k].url,
                           summary |-> OverallSummary(sums[k].title)]]]

\* main.py 128-139: the records handed to store_embeddings.
RECURSIVE MergeRecords(_, _)
MergeRecords(sums, i) ==
    IF i > Len(sums) THEN <<>>
    ELSE LET s == sums[i]
             text == OverallSummary(s.title)
             rec == [text |-> text,
                     metadata |-> [title |-> s.title, authors |-> s.authors,
                                   url |-> s.url, summary |-> text]]
         IN  (IF "overall" \in s.summaries THEN <<rec>> ELSE <<>>)
                \o MergeRecords(sums, i + 1)

Texts(recs) == [i \in 1..Len(recs) |-> recs[i].text]
Metadatas(recs) == [i \in 1..Len(recs) |-> recs[i].metadata]

\* StoreEmbeddings, were _save_store to run before the merge.
StoreEmbeddingsSaveFirst(s, d, texts, metadata, embed_ok, save) ==
    IF texts = <<>> \/ ~embed_ok
    THEN [store |-> s, disk |-> d, raised |-> TRUE]
    ELSE LET new_store == FromTexts(texts, metadata)
             merged == IF s # NoStore THEN MergeFrom(s, new_store) ELSE new_store
         IN  [store |-> merged, disk |-> SaveLocal(s, d, save),
              raised |-> save # "ok"]

\* StoreEmbeddings, were it to take the else branch (self.store = new_store)
\* whatever the resident store is.
StoreEmbeddingsReplace(s, d, texts, metadata, embed_ok, save) ==
    IF texts = <<>> \/ ~embed_ok
    THEN [store |-> s, disk |-> d, raised |-> TRUE]
    ELSE LET new_store == FromTexts(texts, metadata)
         IN  [store |-> new_store, disk |-> SaveLocal(new_store, d, save),
              raised |-> save # "ok"]

\* VectorStore.store_embeddings: the store and the snapshot it leaves, and
\* whether it raised.  FAISS.from_texts raises on an empty batch and when the
\* embedding call fails; the merge is done before _save_store runs.
StoreEmbeddings(s, d, texts, metadata, embed_ok, save) ==
    IF texts = <<>> \/ ~embed_ok
    THEN [store |-> s, disk |-> d, raised |-> TRUE]
    ELSE LET new_store == FromTexts(texts, metadata)
             merged == IF s # NoStore THEN MergeFrom(s, new_store) ELSE new_store
         IN  [store |-> merged, disk |-> SaveLocal(merged, d, save),
              raised |-> save # "ok"]

-----------------------------------------------------------------------------
(* Responses *)

NoResponse == [kind |-> "none", papers |-> <<>>]
\* main.py 164-165
NoPapersMessage == [kind |-> "no_relevant_papers", papers |-> <<>>]
\* llm_model.py 56
ApologyMessage == [kind |-> "llm_apology", papers |-> <<>>]
\* main.py 192-193
FallbackErrorMessage == [kind |-> "fallback_error", papers |-> <<>>]

SummaryLength(text) == 200 * text
ExcerptLimit == 300

\* main.py 176-186: one numbered entry per paper.
FallbackEntry(i, metadata) ==
    [n |-> i, title |-> metadata.title, authors |-> metadata.authors,
     summary |-> [text |-> metadata.summary,
                  chars |-> Min(SummaryLength(metadata.summary), ExcerptLimit),
                  ellipsis |-> SummaryLength(metadata.summary) > ExcerptLimit],
     url |-> metadata.url]

\* ResearchAssistant._generate_fallback_response; metadata['title'] of a
\* record without a title is a KeyError, answered by the second message.
GenerateFallbackResponse(hits) ==
    IF \E i \in 1..Len(hits) : "title" \notin DOMAIN hits[i].metadata
    THEN FallbackErrorMessage
    ELSE [kind |-> "fallback",
          papers |-> [i \in 1..Len(hits) |-> FallbackEntry(i, hits[i].metadata)]]

\* LLMModel.generate_research_response: its own except clause turns every
\* failure of the completion call into the apology text; it never raises.
GenerateResearchResponse(q, hits, llm_ok) ==
    [raised |-> FALSE,
     value  |-> IF llm_ok THEN [kind |-> "synthesized", papers |-> hits]
                ELSE ApologyMessage]

\* Synthesis, were it to lack the test for an empty result set.
SynthesisWithoutEmptyTest(q, hits, llm_ok) ==
    LET r == GenerateResearchResponse(q, hits, llm_ok)
    IN  IF r.raised THEN GenerateFallbackResponse(hits) ELSE r.value

\* main.py 151-165
Synthesis(q, hits, llm_ok) ==
    IF hits # <<>>
    THEN LET r == GenerateResearchResponse(q, hits, llm_ok)
         IN  IF r.raised THEN GenerateFallbackResponse(hits) ELSE r.value
    ELSE NoPapersMessage

-----------------------------------------------------------------------------
(* The step-by-step collaborators, before they are called *)

\* The dict _extract_text starts from (pdf_processor.py 92-102).  A string is
\* the sequence of its lines, so "" is the one empty line.
SectionNames ==
    <<"title", "abstract", "introduction", "methods", "results", "discussion",
      "conclusion", "references", "full_text">>
EmptyString == <<"">>
EmptySections ==
    [name \in {SectionNames[i] : i \in DOMAIN SectionNames} |-> EmptyString]

DlAtRest ==
    [pc |-> "idle", found |-> <<>>, task |-> <<>>, result |-> <<>>,
     files |-> <<>>]
BpAtRest == [pc |-> "idle", input |-> <<>>, i |-> 0, out |-> <<>>]
ExAtRest ==
    [pc |-> "idle", doc |-> <<>>, page_num |-> 0, full_text |-> <<>>,
     sections |-> EmptySections, current_section |-> "none"]
SmAtRest ==
    [pc |-> "idle", papers |-> <<>>, i |-> 0, k |-> 0, summaries |-> {},
     out |-> <<>>, failed |-> {}]
CtAtRest == [pc |-> "ready", text |-> <<>>, once |-> <<>>, twice |-> <<>>]
RlAtRest ==
    [calls |-> 1, period |-> 1, timestamps |-> <<>>, clock |-> 0,
     caller |-> <<>>, completed |-> <<>>]
CmAtRest ==
    [files |-> <<>>, clock |-> 0, latest |-> <<>>,
     last |-> [op |-> "none", key |-> "", ttl |-> 0, raised |-> FALSE,
               result |-> "None"]]

-----------------------------------------------------------------------------
\* No ResearchAssistant has been constructed yet.
MainAtRest ==
    /\ proc = "down"
    /\ store = NoStore
    /\ disk = NoSnapshot
    /\ config = DefaultConfig
    /\ pc = "idle"
    /\ query = 0
    /\ similar_papers = <<>>
    /\ papers = <<>>
    /\ processed_papers = <<>>
    /\ summaries = <<>>
    /\ response = NoResponse
    /\ calls = <<>>
    /\ last_op = [op |-> "none", raised |-> FALSE]

Init ==
    /\ proc = "down"
    /\ store = NoStore
    /\ disk = NoSnapshot
    /\ config \in Configs
    /\ pc = "idle"
    /\ query = 0
    /\ similar_papers = <<>>
    /\ papers = <<>>
    /\ processed_papers = <<>>
    /\ summaries = <<>>
    /\ response = NoResponse
    /\ calls = <<>>
    /\ last_op = [op |-> "none", raised |-> FALSE]
    /\ dl = DlAtRest
    /\ bp = BpAtRest
    /\ ex = ExAtRest
    /\ sm = SmAtRest
    /\ ct = CtAtRest
    /\ rl = RlAtRest
    /\ cm = CmAtRest

\* NeedsAugmentation, were the comparison off by one.
NeedsAugmentationOffByOne(hits, cfg) == Len(hits) <= cfg.MAX_PAPERS

\* main.py 103: too few local hits, so more papers are fetched.
NeedsAugmentation(hits, cfg) == Len(hits) < cfg.MAX_PAPERS

\* AfterDownload, were process_all_papers handed the downloaded papers
\* without batch_process_papers having run.
AfterDownloadSkipsExtraction(got) ==
    IF got # <<>> THEN "summarize" ELSE "synthesize"

\* AfterDownload, were the test of main.py 108 missing.
AfterDownloadNoEmptyTest(got) == "extract"

\* main.py 108: the document pipeline runs only on a non-empty download.
AfterDownload(got) == IF got # <<>> THEN "extract" ELSE "synthesize"

Call(fn, arg, ok) == [fn |-> fn, arg |-> arg, ok |-> ok]

queryVars == <<query, similar_papers, papers, processed_papers, summaries,
               response, calls>>

\* ResearchAssistant.__init__ / VectorStore.__init__
Start(embed_ok) ==
    /\ proc \in {"down", "init_raised"}
    /\ LET s == LoadOrCreateStore(disk, embed_ok)
       IN  /\ store' = s
           /\ proc' = IF s = NoStore THEN "init_raised" ELSE "up"
           /\ last_op' = [op |-> "init", raised |-> s = NoStore]
    /\ UNCHANGED <<disk, config, pc, queryVars>>
    /\ UNCHANGED unitVars

\* The process ends; the resident store goes with it.
Exit ==
    /\ proc = "up"
    /\ pc = "idle"
    /\ proc' = "down"
    /\ store' = NoStore
    /\ last_op' = [op |-> "exit", raised |-> FALSE]
    /\ UNCHANGED <<disk, config, pc, queryVars>>
    /\ UNCHANGED unitVars

\* VectorStore.clear_store: the snapshot files are removed, then the store is
\* re-created; when that raises, self.store keeps the old index.
ClearStore(embed_ok) ==
    /\ proc = "up"
    /\ pc = "idle"
    /\ disk' = NoSnapshot
    /\ LET s == LoadOrCreateStore(NoSnapshot, embed_ok)
       IN  /\ store' = IF s = NoStore THEN store ELSE s
           /\ last_op' = [op |-> "clear_store", raised |-> s = NoStore]
    /\ UNCHANGED <<proc, config, pc, queryVars>>
    /\ UNCHANGED unitVars

\* process_research_query, main.py 100-103: the first search.
FirstSearch(q, search_ok) ==
    /\ proc = "up"
    /\ pc = "idle"
    /\ LET hits == SearchSimilar(store, q, config.MAX_RESULTS, search_ok)
       IN  /\ query' = q
           /\ similar_papers' = hits
           /\ calls' = <<Call("search_similar", hits, search_ok)>>
           /\ pc' = IF NeedsAugmentation(hits, config) THEN "acquire" ELSE "synthesize"
    /\ UNCHANGED <<proc, store, disk, config, papers, processed_papers,
                   summaries, response, last_op>>
    /\ UNCHANGED unitVars

\* The first search of a query whose merge the index has room for.
LocalSearch(q, search_ok) ==
    /\ Len(store.index) + Min(q, config.MAX_PAPERS) <= MaxStore
    /\ FirstSearch(q, search_ok)

\* main.py 105-108, PaperDownloader.download_papers: search_papers raising is
\* re-raised; the papers at the positions in fetched download, the others
\* come back as None and are filtered out.
Acquire(search_ok, fetched) ==
    /\ pc = "acquire"
    /\ LET found == SearchPapers(query, config.MAX_PAPERS)
           got   == SelectPositions(found, fetched, 1)
       IN  /\ fetched \subseteq DOMAIN found
           /\ search_ok \/ fetched = {}
           /\ papers' = IF search_ok THEN got ELSE <<>>
           /\ calls' = Append(calls, Call("download_papers", papers', search_ok))
           /\ pc' = IF ~search_ok THEN "raised" ELSE AfterDownload(got)
    /\ UNCHANGED <<proc, store, disk, config, query, similar_papers,
                   processed_papers, summaries, response, last_op>>
    /\ UNCHANGED unitVars

\* main.py 109, PDFProcessor.batch_process_papers: the papers at the positions
\* in extracted gain their sections, the others are dropped.
Extract(extracted) ==
    /\ pc = "extract"
    /\ extracted \subseteq DOMAIN papers
    /\ LET withSections == [i \in DOMAIN papers |-> WithSections(papers[i])]
       IN  processed_papers' = SelectPositions(withSections, extracted, 1)
    /\ calls' = Append(calls, Call("batch_process_papers", processed_papers', TRUE))
    /\ pc' = "summarize"
    /\ UNCHANGED <<proc, store, disk, config, query, similar_papers, papers,
                   summaries, response, last_op>>
    /\ UNCHANGED unitVars

\* main.py 112-115, PaperSummarizer.process_all_papers
Summarize(failed) ==
    /\ pc = "summarize"
    /\ summaries' = ProcessAllPapers(processed_papers, failed, 1)
    /\ calls' = Append(calls, Call("process_all_papers", summaries', TRUE))
    /\ pc' = IF summaries' # <<>> THEN "merge" ELSE "synthesize"
    /\ UNCHANGED <<proc, store, disk, config, query, similar_papers, papers,
                   processed_papers, response, last_op>>
    /\ UNCHANGED unitVars

\* main.py 116-143: evaluate_summaries (which absorbs its own failures and
\* touches nothing modelled here), the batch, store_embeddings.
Merge(embed_ok, save) ==
    /\ pc = "merge"
    /\ LET recs == MergeRecords(summaries, 1)
           r == StoreEmbeddings(store, disk, Texts(recs), Metadatas(recs),
                                embed_ok, save)
       IN  IF recs = <<>>
           THEN /\ embed_ok /\ save = "ok"
                /\ pc' = "synthesize"
                /\ UNCHANGED <<store, disk, calls, last_op>>
           ELSE /\ embed_ok \/ save = "ok"
                /\ store' = r.store
                /\ disk' = r.disk
                /\ calls' = Append(calls, Call("store_embeddings", recs, ~r.raised))
                /\ last_op' = [op |-> "store_embeddings", raised |-> r.raised]
                /\ pc' = IF r.raised THEN "raised" ELSE "research"
    /\ UNCHANGED <<proc, config, query, similar_papers, papers,
                   processed_papers, summaries, response>>
    /\ UNCHANGED unitVars

\* Research, were the hits of the second search not assigned to similar_papers.
ResearchKeepsFirstResult(search_ok) ==
    /\ pc = "research"
    /\ LET hits == SearchSimilar(store, query, config.MAX_RESULTS, search_ok)
       IN  calls' = Append(calls, Call("search_similar", hits, search_ok))
    /\ pc' = "synthesize"
    /\ UNCHANGED <<proc, store, disk, config, query, similar_papers, papers,
                   processed_papers, summaries, response, last_op>>
    /\ UNCHANGED unitVars

\* main.py 145-149: the search after the merge.
Research(search_ok) ==
    /\ pc = "research"
    /\ LET hits == SearchSimilar(store, query, config.MAX_RESULTS, search_ok)
       IN  /\ similar_papers' = hits
           /\ calls' = Append(calls, Call("search_similar", hits, search_ok))
    /\ pc' = "synthesize"
    /\ UNCHANGED <<proc, store, disk, config, query, papers, processed_papers,
                   summaries, response, last_op>>
    /\ UNCHANGED unitVars

\* main.py 151-165
Synthesize(llm_ok) ==
    /\ pc = "synthesize"
    /\ similar_papers # <<>> \/ llm_ok
    /\ response' = Synthesis(query, similar_papers, llm_ok)
    /\ calls' = IF similar_papers # <<>>
                THEN Append(calls, Call("generate_research_response",
                                        similar_papers, llm_ok))
                ELSE calls
    /\ pc' = "done"
    /\ UNCHANGED <<proc, store, disk, config, query, similar_papers, papers,
                   processed_papers, summaries, last_op>>
    /\ UNCHANGED unitVars

\* The caller has the answer (or the exception); the locals are gone.
Return ==
    /\ pc \in {"done", "raised"}
    /\ pc' = "idle"
    /\ query' = 0
    /\ similar_papers' = <<>>
    /\ papers' = <<>>
    /\ processed_papers' = <<>>
    /\ summaries' = <<>>
    /\ response' = NoResponse
    /\ calls' = <<>>
    /\ UNCHANGED <<proc, store, disk, config, last_op>>
    /\ UNCHANGED unitVars

Next ==
    \/ \E embed_ok \in BOOLEAN : Start(embed_ok)
    \/ Exit
    \/ \E embed_ok \in BOOLEAN : ClearStore(embed_ok)
    \/ \E q \in Queries, search_ok \in BOOLEAN : LocalSearch(q, search_ok)
    \/ \E search_ok \in BOOLEAN, fetched \in SUBSET Papers : Acquire(search_ok, fetched)
    \/ \E extracted \in SUBSET Papers : Extract(extracted)
    \/ \E failed \in LLMFailures(processed_papers, 1) : Summarize(failed)
    \/ \E embed_ok \in BOOLEAN, save \in SaveOutcomes : Merge(embed_ok, save)
    \/ \E search_ok \in BOOLEAN : Research(search_ok)
    \/ \E llm_ok \in BOOLEAN : Synthesize(llm_ok)
    \/ Return

Spec == Init /\ [][Next]_vars

-----------------------------------------------------------------------------
(* process_research_query up to the download (main.py 100-108) with the    *)
(* default configuration, started on stores of every size up to MaxRecords, *)
(* as earlier queries leave them behind.                                    *)

MaxRecords == 11   \* records merged into the store before the query

\* The store after n summaries were merged into a new one, the papers taken
\* in turn (a paper merged again is stored again).
StoreOfSize(n) ==
    LET title(i) == Paper(((i - 1) % NPapers) + 1).title
    IN  MergeFrom(NewStore,
                  FromTexts([i \in 1..n |-> OverallSummary(title(i))],
                            [i \in 1..n |->
                                [title |-> title(i), authors |-> title(i),
                                 url |-> title(i),
                                 summary |-> OverallSummary(title(i))]]))

GateInit ==
    /\ proc = "up"
    /\ store \in {StoreOfSize(n) : n \in 0..MaxRecords}
    /\ disk = SaveLocal(store, NoSnapshot, "ok")
    /\ config = DefaultConfig
    /\ pc = "idle"
    /\ query = 0
    /\ similar_papers = <<>>
    /\ papers = <<>>
    /\ processed_papers = <<>>
    /\ summaries = <<>>
    /\ response = NoResponse
    /\ calls = <<>>
    /\ last_op = [op |-> "init", raised |-> FALSE]
    /\ dl = DlAtRest
    /\ bp = BpAtRest
    /\ ex = ExAtRest
    /\ sm = SmAtRest
    /\ ct = CtAtRest
    /\ rl = RlAtRest
    /\ cm = CmAtRest

GateNext ==
    \/ \E q \in Queries, search_ok \in BOOLEAN : FirstSearch(q, search_ok)
    \/ \E search_ok \in BOOLEAN, fetched \in SUBSET Papers : Acquire(search_ok, fetched)
    \/ \E llm_ok \in BOOLEAN : Synthesize(llm_ok)
    \/ Return

GateSpec == GateInit /\ [][GateNext]_vars

-----------------------------------------------------------------------------
(* PaperDownloader.download_papers, download by download                   *)
(* (modules/paper_downloader.py).  asyncio.gather runs one download_paper  *)
(* task per paper found; the tasks interleave at their awaits.             *)

MaxDownloads == 2   \* papers arXiv returns to one download_papers call

(* Config, config/config.py *)
MAX_RETRIES == 3
RETRY_DELAY == 5

\* How one session.get attempt ends: status 200 and the body written, another
\* status, asyncio.TimeoutError, any other exception.
FetchOutcomes == {"ok", "status", "timeout", "error"}

\* A download_paper task: where it is, the attempts it has made, how the last
\* one ended and how long the task slept after it.
NewTask == [state |-> "pending", attempt |-> 0, last |-> "none", slept |-> 0]

\* download_paper up to the retry loop: an exception here (paper without
\* arxiv_id, say) is caught by the outer handler; a file already at filepath
\* is returned as the download.
DownloadPaperBegin(task, file, raises) ==
    IF raises THEN [task EXCEPT !.state = "none"]
    ELSE IF file # "absent" THEN [task EXCEPT !.state = "paper"]
    ELSE [task EXCEPT !.state = "running"]

\* One pass of `for attempt in range(Config.MAX_RETRIES)`; task.attempt is the
\* loop variable.  A status other than 200 is logged and the loop goes on at
\* once; the two except clauses sleep RETRY_DELAY * (attempt + 1) unless this
\* was the last attempt.
FetchAttempt(task, outcome) ==
    LET attempt == task.attempt
        made == [task EXCEPT !.attempt = attempt + 1, !.last = outcome, !.slept = 0]
    IN  CASE outcome = "ok" -> [made EXCEPT !.state = "paper"]
          [] outcome = "status" ->
                IF attempt + 1 < MAX_RETRIES THEN made
                ELSE [made EXCEPT !.state = "none"]
          [] OTHER ->
                IF attempt < MAX_RETRIES - 1
                THEN [made EXCEPT !.slept = RETRY_DELAY * (attempt + 1)]
                ELSE [made EXCEPT !.state = "none"]

\* The file at filepath after the attempt: open(filepath, 'wb') creates it,
\* and an attempt that fails after that leaves what was written so far.
FileAfter(file, outcome, wrote) ==
    IF outcome = "ok" THEN "complete"
    ELSE IF wrote THEN "partial"
    ELSE file

\* GatherResults, were one failed download to void the whole batch.
GatherResultsAllOrNothing(found, task, i) ==
    IF \E j \in DOMAIN task : task[j].state = "none" THEN <<>> ELSE found

\* paper_downloader.py 127-130: gather keeps the order of the tasks, and the
\* None results are filtered out.
RECURSIVE GatherResults(_, _, _)
GatherResults(found, task, i) ==
    IF i > Len(found) THEN <<>>
    ELSE (IF task[i].state = "paper" THEN <<found[i]>> ELSE <<>>)
            \o GatherResults(found, task, i + 1)

DownloadInit ==
    /\ MainAtRest
    /\ dl = [DlAtRest EXCEPT !.files = [p \in 1..MaxDownloads |-> "absent"]]
    /\ bp = BpAtRest
    /\ ex = ExAtRest
    /\ sm = SmAtRest
    /\ ct = CtAtRest
    /\ rl = RlAtRest
    /\ cm = CmAtRest

\* download_papers 114-126: search_papers raising is re-raised, an empty
\* result returns [], otherwise one task per paper is started.
DlSearch(q, search_ok) ==
    /\ dl.pc = "idle"
    /\ LET found == SearchPapers(q, MAX_PAPERS)
       IN  dl' = IF ~search_ok THEN [dl EXCEPT !.pc = "raised"]
                 ELSE IF found = <<>> THEN [dl EXCEPT !.pc = "returned"]
                 ELSE [dl EXCEPT !.pc = "gather", !.found = found,
                                 !.task = [i \in DOMAIN found |-> NewTask]]
    /\ UNCHANGED allButDl

\* download_paper 60-68 of task i
DlBegin(i, raises) ==
    /\ dl.pc = "gather"
    /\ i \in DOMAIN dl.task
    /\ dl.task[i].state = "pending"
    /\ dl' = [dl EXCEPT !.task[i] =
                 DownloadPaperBegin(@, dl.files[dl.found[i].arxiv_id], raises)]
    /\ UNCHANGED allButDl

\* download_paper 75-106 of task i: one attempt, and the sleep after it
DlFetch(i, outcome, wrote) ==
    /\ dl.pc = "gather"
    /\ i \in DOMAIN dl.task
    /\ dl.task[i].state = "running"
    /\ wrote => outcome \in {"timeout", "error"}
    /\ dl' = [dl EXCEPT !.task[i] = FetchAttempt(@, outcome),
                        !.files[dl.found[i].arxiv_id] = FileAfter(@, outcome, wrote)]
    /\ UNCHANGED allButDl

\* download_papers 127-133: every task is done
DlGathered ==
    /\ dl.pc = "gather"
    /\ \A i \in DOMAIN dl.task : dl.task[i].state \in {"paper", "none"}
    /\ dl' = [dl EXCEPT !.pc = "returned",
                        !.result = GatherResults(dl.found, dl.task, 1)]
    /\ UNCHANGED allButDl

\* The caller has the list (or the exception); the files stay.
DlReturn ==
    /\ dl.pc \in {"returned", "raised"}
    /\ dl' = [DlAtRest EXCEPT !.files = dl.files]
    /\ UNCHANGED allButDl

DownloadNext ==
    \/ \E q \in 0..MaxDownloads, search_ok \in BOOLEAN : DlSearch(q, search_ok)
    \/ \E i \in 1..MaxDownloads, raises \in BOOLEAN : DlBegin(i, raises)
    \/ \E i \in 1..MaxDownloads, outcome \in FetchOutcomes, wrote \in BOOLEAN :
          DlFetch(i, outcome, wrote)
    \/ DlGathered
    \/ DlReturn

DownloadSpec == DownloadInit /\ [][DownloadNext]_vars

-----------------------------------------------------------------------------
(* PDFProcessor.batch_process_papers, paper by paper                        *)
(* (modules/pdf_processor.py 33-85)                                         *)

MaxBatch == 2   \* papers handed to one batch_process_papers call

\* What process_paper meets for a paper: all well, the dict without a
\* local_path, the file gone, fitz unable to read the PDF (_extract_text
\* raises), the processed text not writable (_save_processed_text raises).
PaperConditions ==
    {"good", "no_local_path", "file_missing", "unreadable_pdf", "save_fails"}

\* The lists batch_process_papers may be handed.
BatchInputs ==
    UNION {{[i \in 1..n |-> [paper |-> Paper(i), condition |-> c[i]]] :
               c \in [1..n -> PaperConditions]} : n \in 0..MaxBatch}

\* process_paper: <<>> stands for None.  It returns None at line 59 and from
\* its except clause, which catches what _extract_text and
\* _save_processed_text raise.
ProcessPaper(item) ==
    IF item.condition = "good" THEN <<WithSections(item.paper)>> ELSE <<>>

\* BatchCollect, were a paper that fails to empty the list (as the outer
\* except clause of batch_process_papers would).
BatchCollectVoidsOnFailure(out, result) ==
    IF result = <<>> THEN <<>> ELSE out \o result

\* batch_process_papers 40-41
BatchCollect(out, result) == out \o result

BatchInit ==
    /\ MainAtRest
    /\ dl = DlAtRest
    /\ bp = BpAtRest
    /\ ex = ExAtRest
    /\ sm = SmAtRest
    /\ ct = CtAtRest
    /\ rl = RlAtRest
    /\ cm = CmAtRest

\* batch_process_papers 35-36
BpCall(input) ==
    /\ bp.pc = "idle"
    /\ bp' = [pc |-> "loop", input |-> input, i |-> 1, out |-> <<>>]
    /\ UNCHANGED allButBp

\* batch_process_papers 37-44: one pass of the loop
BpProcess ==
    /\ bp.pc = "loop"
    /\ bp.i <= Len(bp.input)
    /\ bp' = [bp EXCEPT !.i = @ + 1,
                        !.out = BatchCollect(@, ProcessPaper(bp.input[bp.i]))]
    /\ UNCHANGED allButBp

\* batch_process_papers 46-47
BpDone ==
    /\ bp.pc = "loop"
    /\ bp.i > Len(bp.input)
    /\ bp' = [bp EXCEPT !.pc = "returned"]
    /\ UNCHANGED allButBp

\* The caller has the list.
BpReturn ==
    /\ bp.pc = "returned"
    /\ bp' = BpAtRest
    /\ UNCHANGED allButBp

BatchNext ==
    \/ \E input \in BatchInputs : BpCall(input)
    \/ BpProcess
    \/ BpDone
    \/ BpReturn

BatchSpec == BatchInit /\ [][BatchNext]_vars

-----------------------------------------------------------------------------
(* PDFProcessor._extract_text, page by page (modules/pdf_processor.py       *)
(* 87-183).  A string is the sequence of its lines (what split('\n') gives, *)
(* never empty), so a + "\n" + b is the concatenation of the two sequences. *)
(* A line is "", a line of running text longer than ten characters          *)
(* ("prose"), or a line made of one of the words the patterns look for.     *)

MaxPages == 2   \* pages of a PDF

\* The page texts page.get_text may return: no text; running text; a first
\* page with title, abstract and the introduction header; an abstract ended
\* by blank lines; pages with one header and with two, in either order.
SamplePages ==
    { <<"">>,
      <<"prose">>,
      <<"prose", "abstract", "prose", "introduction", "prose">>,
      <<"abstract", "prose", "", "", "prose">>,
      <<"results", "prose">>,
      <<"discussion", "prose", "results">>,
      <<"methods">> }

Documents == UNION {[1..n -> SamplePages] : n \in 0..MaxPages}

SetMin(S) == CHOOSE x \in S : \A y \in S : x <= y
SetMax(S) == CHOOSE x \in S : \A y \in S : x >= y

\* _extract_title: the first of the first three lines that is longer than ten
\* characters and does not start with "abstract" or "introduction".
ExtractTitle(text) ==
    LET titles == {i \in 1..Min(3, Len(text)) : text[i] = "prose"}
    IN  IF titles = {} THEN EmptyString ELSE <<text[SetMin(titles)]>>

\* _extract_abstract: what follows the first "abstract" and its white space,
\* up to the first line break that is followed by "introduction" or by two
\* more line breaks; stripped.  Without such an end there is no match.
ExtractAbstract(text) ==
    LET heads == {i \in DOMAIN text : text[i] = "abstract"}
        starts == IF heads = {} THEN {}
                  ELSE {i \in DOMAIN text : i > SetMin(heads) /\ text[i] # ""}
        ends == IF starts = {} THEN {}
                ELSE {j \in DOMAIN text :
                        /\ j > SetMin(starts)
                        /\ \/ text[j] = "introduction"
                           \/ text[j] = "" /\ j + 1 < Len(text) /\ text[j + 1] = ""}
    IN  IF ends = {} THEN EmptyString
        ELSE LET first == SetMin(starts)
                 last == SetMax({i \in first..(SetMin(ends) - 1) : text[i] # ""})
             IN  SubSeq(text, first, last)

\* The keys of section_patterns, in the order of the dict.
SectionPatterns ==
    <<"introduction", "methods", "results", "discussion", "conclusion",
      "references">>

\* _identify_section_markers: the sections whose pattern is found in the
\* text, in the order of section_patterns.
IdentifySectionMarkers(text) ==
    SelectPositions(SectionPatterns,
                    {k \in DOMAIN SectionPatterns :
                        \E i \in DOMAIN text : text[i] = SectionPatterns[k]}, 1)

\* pdf_processor.py 121-122: the last marker of the list becomes the cursor.
CursorAfter(current, markers) ==
    IF markers = <<>> THEN current ELSE markers[Len(markers)]

\* '\n'.join(texts)
RECURSIVE JoinLines(_)
JoinLines(texts) ==
    IF texts = <<>> THEN EmptyString
    ELSE IF Len(texts) = 1 THEN texts[1]
    ELSE texts[1] \o JoinLines(Tail(texts))

\* ExtractPage, were a page's text kept for full_text only once a section is
\* current.
ExtractPageTextOnlyInSection(st, text) ==
    LET first == IF st.page_num = 0
                 THEN [st.sections EXCEPT !["title"] = ExtractTitle(text),
                                          !["abstract"] = ExtractAbstract(text)]
                 ELSE st.sections
        cursor == CursorAfter(st.current_section, IdentifySectionMarkers(text))
    IN  [st EXCEPT !.page_num = @ + 1,
                   !.full_text = IF cursor # "none" THEN Append(@, text) ELSE @,
                   !.current_section = cursor,
                   !.sections = IF cursor # "none"
                                THEN [first EXCEPT ![cursor] = @ \o text]
                                ELSE first]

\* ExtractPage, were the page's text appended to the section of every marker
\* found on the page.
ExtractPageAppendsToEveryMarker(st, text) ==
    LET first == IF st.page_num = 0
                 THEN [st.sections EXCEPT !["title"] = ExtractTitle(text),
                                          !["abstract"] = ExtractAbstract(text)]
                 ELSE st.sections
        markers == IdentifySectionMarkers(text)
        cursor == CursorAfter(st.current_section, markers)
        hit == {markers[k] : k \in DOMAIN markers} \cup ({cursor} \ {"none"})
    IN  [st EXCEPT !.page_num = @ + 1,
                   !.full_text = Append(@, text),
                   !.current_section = cursor,
                   !.sections = [name \in DOMAIN first |->
                                   IF name \in hit THEN first[name] \o text
                                   ELSE first[name]]]

\* ExtractPage, were the text of a page on which a header is found left out
\* of the section it opens.
ExtractPageSkipsHeaderPage(st, text) ==
    LET first == IF st.page_num = 0
                 THEN [st.sections EXCEPT !["title"] = ExtractTitle(text),
                                          !["abstract"] = ExtractAbstract(text)]
                 ELSE st.sections
        markers == IdentifySectionMarkers(text)
        cursor == CursorAfter(st.current_section, markers)
    IN  [st EXCEPT !.page_num = @ + 1,
                   !.full_text = Append(@, text),
                   !.current_section = cursor,
                   !.sections = IF cursor # "none" /\ markers = <<>>
                                THEN [first EXCEPT ![cursor] = @ \o text]
                                ELSE first]

\* pdf_processor.py 108-126: one pass of the loop over the pages.
ExtractPage(st, text) ==
    LET first == IF st.page_num = 0
                 THEN [st.sections EXCEPT !["title"] = ExtractTitle(text),
                                          !["abstract"] = ExtractAbstract(text)]
                 ELSE st.sections
        cursor == CursorAfter(st.current_section, IdentifySectionMarkers(text))
    IN  [st EXCEPT !.page_num = @ + 1,
                   !.full_text = Append(@, text),
                   !.current_section = cursor,
                   !.sections = IF cursor # "none"
                                THEN [first EXCEPT ![cursor] = @ \o text]
                                ELSE first]

ExtractInit ==
    /\ MainAtRest
    /\ dl = DlAtRest
    /\ bp = BpAtRest
    /\ ex = ExAtRest
    /\ sm = SmAtRest
    /\ ct = CtAtRest
    /\ rl = RlAtRest
    /\ cm = CmAtRest

\* pdf_processor.py 90-105: fitz.open, which raises on a file it cannot read
ExOpen(doc, open_ok) ==
    /\ ex.pc = "idle"
    /\ ex' = IF open_ok THEN [ExAtRest EXCEPT !.pc = "pages", !.doc = doc]
              ELSE [ExAtRest EXCEPT !.pc = "raised"]
    /\ UNCHANGED allButEx

\* pdf_processor.py 107-126; get_text raising ends the call (136-138)
ExPage(read_ok) ==
    /\ ex.pc = "pages"
    /\ ex.page_num < Len(ex.doc)
    /\ ex' = IF read_ok THEN ExtractPage(ex, ex.doc[ex.page_num + 1])
              ELSE [ex EXCEPT !.pc = "raised"]
    /\ UNCHANGED allButEx

\* pdf_processor.py 129-134
ExClose ==
    /\ ex.pc = "pages"
    /\ ex.page_num = Len(ex.doc)
    /\ ex' = [ex EXCEPT !.pc = "returned",
                        !.sections["full_text"] = JoinLines(ex.full_text)]
    /\ UNCHANGED allButEx

\* process_paper has the sections (or the exception).
ExReturn ==
    /\ ex.pc \in {"returned", "raised"}
    /\ ex' = ExAtRest
    /\ UNCHANGED allButEx

ExtractNext ==
    \/ \E doc \in Documents, open_ok \in BOOLEAN : ExOpen(doc, open_ok)
    \/ \E read_ok \in BOOLEAN : ExPage(read_ok)
    \/ ExClose
    \/ ExReturn

ExtractSpec == ExtractInit /\ [][ExtractNext]_vars

-----------------------------------------------------------------------------
(* TextProcessor.clean_text (utils/text_processor.py 8-20).  A string is   *)
(* here the sequence of its characters: a letter, the space, the line      *)
(* break, the no-break space U+00A0 (which NFKC turns into a space) and a  *)
(* character the third step removes.                                        *)

MaxLen == 5   \* characters of an argument of clean_text

Chars == {"a", "space", "newline", "nbsp", "hash"}
Strings == UNION {[1..n -> Chars] : n \in 0..MaxLen}

\* unicodedata.normalize('NFKC', text)
Normalize(text) ==
    [i \in DOMAIN text |-> IF text[i] = "nbsp" THEN "space" ELSE text[i]]

\* what \s matches
IsWhitespace(c) == c \in {"space", "newline", "nbsp"}

RECURSIVE DropLeadingWhitespace(_)
DropLeadingWhitespace(text) ==
    IF text # <<>> /\ IsWhitespace(Head(text))
    THEN DropLeadingWhitespace(Tail(text))
    ELSE text

RECURSIVE DropTrailingWhitespace(_)
DropTrailingWhitespace(text) ==
    IF text # <<>> /\ IsWhitespace(text[Len(text)])
    THEN DropTrailingWhitespace(SubSeq(text, 1, Len(text) - 1))
    ELSE text

\* re.sub(r'\s+', ' ', text)
RECURSIVE CollapseWhitespace(_)
CollapseWhitespace(text) ==
    IF text = <<>> THEN <<>>
    ELSE IF IsWhitespace(Head(text))
         THEN <<"space">> \o CollapseWhitespace(DropLeadingWhitespace(text))
         ELSE <<Head(text)>> \o CollapseWhitespace(Tail(text))

\* re.sub(r'[^\w\s\.\,\;\:\!\?\-\']', '', text)
RemoveSpecial(text) ==
    SelectPositions(text, {i \in DOMAIN text : text[i] # "hash"}, 1)

\* text.strip()
Strip(text) == DropTrailingWhitespace(DropLeadingWhitespace(text))

CleanText(text) ==
    Strip(RemoveSpecial(CollapseWhitespace(Normalize(text))))

CleanInit ==
    /\ MainAtRest
    /\ dl = DlAtRest
    /\ bp = BpAtRest
    /\ ex = ExAtRest
    /\ sm = SmAtRest
    /\ ct \in {[CtAtRest EXCEPT !.text = s] : s \in Strings}
    /\ rl = RlAtRest
    /\ cm = CmAtRest

\* clean_text(text)
CtClean ==
    /\ ct.pc = "ready"
    /\ ct' = [ct EXCEPT !.pc = "once", !.once = CleanText(ct.text)]
    /\ UNCHANGED allButCt

\* clean_text of what clean_text returned
CtCleanAgain ==
    /\ ct.pc = "once"
    /\ ct' = [ct EXCEPT !.pc = "twice", !.twice = CleanText(ct.once)]
    /\ UNCHANGED allButCt

CleanNext == CtClean \/ CtCleanAgain

CleanSpec == CleanInit /\ [][CleanNext]_vars

-----------------------------------------------------------------------------
(* PaperSummarizer (modules/paper_summarizer.py 16-161), one LLM call at a  *)
(* time.  The content of a section is "empty" (''), "blank" (white space    *)
(* only) or "text"; a set of summaries is the set of its keys, the name n   *)
(* standing for the key n_summary and "overall" for overall_summary.        *)

MaxSummarized == 2   \* papers handed to process_all_papers

Contents == {"empty", "blank", "text"}

\* A sections dict with text in the sections of withText and white space in
\* those of withBlank.
SectionsWith(withText, withBlank) ==
    [n \in {SectionNames[k] : k \in 1..Len(SectionNames)} |->
        IF n \in withText THEN "text"
        ELSE IF n \in withBlank THEN "blank" ELSE "empty"]

\* paper.get('sections', {}) of a paper that has no sections.
NoSections == [n \in {} |-> "empty"]

SampleSections ==
    { NoSections,
      SectionsWith({"full_text"}, {}),
      SectionsWith({"title", "full_text"}, {}),
      SectionsWith({"full_text"}, {"abstract"}),
      SectionsWith({"introduction", "results", "full_text"}, {}) }

\* The lists of papers process_all_papers is called with; the i-th is
\* titled i.
SummarizerInputs ==
    UNION { { [i \in 1..n |-> [title |-> i, authors |-> i, pdf_url |-> i,
                               sections |-> f[i]]] :
                f \in [1..n -> SampleSections] } : n \in 0..MaxSummarized }

\* What chat.completions.create does: it answers, it raises, or it answers
\* without choices.
LLMOutcomes == {"ok", "raises", "no_choices"}

\* summarize_paper 67: the sections a summary is asked for.
IsSummarized(sections, name) ==
    sections[name] # "empty" /\ name # "full_text"

\* _generate_section_summary 90: no request for white space.
CallsLLM(sections, name) ==
    IsSummarized(sections, name) /\ sections[name] # "blank"

\* _generate_overall_summary, were it to ask for a summary of every paper.
NeedsOverallAlways(sections) == TRUE

\* _generate_overall_summary 125-126
NeedsOverall(sections) ==
    sections["abstract"] # "empty" \/ sections["introduction"] # "empty"

\* summarize_paper, were a failed request to void the summaries collected
\* so far.
AfterSectionCallFailureClears(keys, name, outcome) ==
    IF outcome = "ok" THEN keys \cup {name} ELSE {}

\* summarize_paper 68-70, 78-79: the summaries after one request.
AfterSectionCall(keys, name, outcome) ==
    IF outcome = "ok" THEN keys \cup {name} ELSE keys

\* process_all_papers 26-39: the paper with its summaries, if it has any.
CollectSummaries(out, paper, keys) ==
    IF keys # {}
    THEN Append(out, [title |-> paper.title, authors |-> paper.authors,
                      url |-> paper.pdf_url, summaries |-> keys])
    ELSE out

SummarizeInit ==
    /\ MainAtRest
    /\ dl = DlAtRest
    /\ bp = BpAtRest
    /\ ex = ExAtRest
    /\ sm = SmAtRest
    /\ ct = CtAtRest
    /\ rl = RlAtRest
    /\ cm = CmAtRest

\* process_all_papers(papers)
SmCall(input) ==
    /\ sm.pc = "idle"
    /\ sm.out = <<>>
    /\ sm' = [sm EXCEPT !.pc = "paper", !.papers = input, !.i = 1]
    /\ UNCHANGED allButSm

\* process_all_papers 22-36 and summarize_paper 58-63: the next paper.
SmPaper ==
    /\ sm.pc = "paper"
    /\ IF sm.i > Len(sm.papers)
       THEN sm' = [sm EXCEPT !.pc = "done"]
       ELSE IF DOMAIN sm.papers[sm.i].sections = {}
            THEN sm' = [sm EXCEPT !.i = @ + 1]
            ELSE sm' = [sm EXCEPT !.pc = "section", !.k = 1, !.summaries = {}]
    /\ UNCHANGED allButSm

\* summarize_paper 66-70: one pass of the loop over the sections.
SmSection(outcome) ==
    /\ sm.pc = "section"
    /\ LET sections == sm.papers[sm.i].sections
           name     == SectionNames[sm.k]
           called   == CallsLLM(sections, name)
       IN  sm' = [sm EXCEPT
                    !.summaries = IF called
                                  THEN AfterSectionCall(@, name, outcome)
                                  ELSE @,
                    !.failed = IF called /\ outcome # "ok"
                               THEN @ \cup {<<sm.i, name>>} ELSE @,
                    !.k = @ + 1,
                    !.pc = IF sm.k = Len(SectionNames)
                           THEN "overall" ELSE "section"]
    /\ UNCHANGED allButSm

\* summarize_paper 73-81 and process_all_papers 37-42: the overall summary,
\* and the paper kept if it has a summary.
SmOverall(outcome) ==
    /\ sm.pc = "overall"
    /\ LET paper     == sm.papers[sm.i]
           called    == NeedsOverall(paper.sections)
           keys      == IF called
                        THEN AfterSectionCall(sm.summaries, "overall", outcome)
                        ELSE sm.summaries
       IN  sm' = [sm EXCEPT
                    !.summaries = keys,
                    !.failed = IF called /\ outcome # "ok"
                               THEN @ \cup {<<sm.i, "overall">>} ELSE @,
                    !.out = CollectSummaries(@, paper, keys),
                    !.i = @ + 1,
                    !.pc = "paper"]
    /\ UNCHANGED allButSm

\* process_all_papers 49: the list is returned.
SmReturn ==
    /\ sm.pc = "done"
    /\ sm' = [sm EXCEPT !.pc = "returned"]
    /\ UNCHANGED allButSm

SummarizeNext ==
    \/ \E input \in SummarizerInputs : SmCall(input)
    \/ SmPaper
    \/ \E outcome \in LLMOutcomes : SmSection(outcome)
    \/ \E outcome \in LLMOutcomes : SmOverall(outcome)
    \/ SmReturn

SummarizeSpec == SummarizeInit /\ [][SummarizeNext]_vars

-----------------------------------------------------------------------------
(* RateLimiter (utils/rate_limiter.py 6-27), shared by the coroutines that  *)
(* await acquire().  Time is counted in whole units; a coroutine runs from  *)
(* one await to the next without interruption, and a sleeping one resumes   *)
(* when its time has come, before the clock moves on.                       *)

NCallers == 2      \* coroutines sharing the limiter
MaxClock == 4      \* the clock stops here
MaxAcquires == 4   \* acquire() calls made in all

\* RateLimiter(calls, period)
LimiterConfigs ==
    {[calls |-> c, period |-> 2] : c \in 1..2}

IdleCaller == [pc |-> "idle", now |-> 0, wake |-> 0]

\* rate_limiter.py 19
Prune(timestamps, now, period) ==
    SelectPositions(timestamps,
                    {i \in DOMAIN timestamps : now - timestamps[i] <= period}, 1)

\* rate_limiter.py 22
SleepTime(timestamps, now, period) == timestamps[1] + period - now

\* rate_limiter.py 21-23: the call has to wait.
MustSleep(timestamps, now, limit, period) ==
    /\ Len(timestamps) >= limit
    /\ SleepTime(timestamps, now, period) > 0

RateInit ==
    /\ MainAtRest
    /\ dl = DlAtRest
    /\ bp = BpAtRest
    /\ ex = ExAtRest
    /\ sm = SmAtRest
    /\ ct = CtAtRest
    /\ rl \in {[RlAtRest EXCEPT !.calls = c.calls, !.period = c.period,
                                !.caller = [i \in 1..NCallers |-> IdleCaller]] :
                    c \in LimiterConfigs}
    /\ cm = CmAtRest

\* acquire() up to its await, or to its end when it does not sleep
\* (rate_limiter.py 16-24, 27).
RlAcquire(c) ==
    /\ c \in DOMAIN rl.caller
    /\ rl.caller[c].pc = "idle"
    /\ Len(rl.completed)
         + Cardinality({d \in DOMAIN rl.caller : rl.caller[d].pc # "idle"})
         < MaxAcquires
    /\ LET now == rl.clock
           kept == Prune(rl.timestamps, now, rl.period)
       IN  IF MustSleep(kept, now, rl.calls, rl.period)
           THEN rl' = [rl EXCEPT
                         !.timestamps = kept,
                         !.caller[c] = [pc |-> "sleeping", now |-> now,
                                        wake |-> rl.clock
                                           + SleepTime(kept, now, rl.period)]]
           ELSE rl' = [rl EXCEPT
                         !.timestamps = Append(kept, now),
                         !.completed = Append(@, rl.clock)]
    /\ UNCHANGED allButRl

\* acquire() after its sleep (rate_limiter.py 25, 27): pop(0) of an empty
\* list raises IndexError.
RlWake(c) ==
    /\ c \in DOMAIN rl.caller
    /\ rl.caller[c].pc = "sleeping"
    /\ rl.caller[c].wake <= rl.clock
    /\ IF rl.timestamps = <<>>
       THEN rl' = [rl EXCEPT !.caller[c].pc = "raised"]
       ELSE rl' = [rl EXCEPT
                     !.timestamps = Append(Tail(@), rl.caller[c].now),
                     !.completed = Append(@, rl.clock),
                     !.caller[c] = IdleCaller]
    /\ UNCHANGED allButRl

\* Time passes.
RlTick ==
    /\ rl.caller # <<>>
    /\ rl.clock < MaxClock
    /\ \A c \in DOMAIN rl.caller :
            rl.caller[c].pc = "sleeping" => rl.caller[c].wake > rl.clock
    /\ rl' = [rl EXCEPT !.clock = @ + 1]
    /\ UNCHANGED allButRl

RateNext ==
    \/ \E c \in 1..NCallers : RlAcquire(c)
    \/ \E c \in 1..NCallers : RlWake(c)
    \/ RlTick

RateSpec == RateInit /\ [][RateNext]_vars

-----------------------------------------------------------------------------
(* CacheManager (utils/cache_manager.py).  A cache file is named by its     *)
(* key (md5 taken as injective) and holds the pair pickled by set: the time *)
(* of the call and the value.                                               *)

MaxCacheClock == 3   \* the clock stops here
MaxTTL == 2          \* largest ttl handed to get

CacheKeys == {"k1", "k2"}
CacheValues == {"v1", "v2"}
\* get's ttl: None (the default), or a number of seconds
NoTTL == 0 - 1
TTLs == {NoTTL} \cup 0..MaxTTL

\* What cache_manager.py imports (lines 1-5).
Imported == {"pickle", "Path", "Any", "Optional", "time", "datetime", "timedelta"}

NoFile == [exists |-> FALSE, timestamp |-> 0, value |-> "None"]
NeverSet == [set |-> FALSE, at |-> 0, value |-> "None"]

\* _get_cache_path: the name hashlib is looked up when the method runs, and
\* the lookup raises NameError when the module has not imported it.
GetCachePath(key) ==
    IF "hashlib" \in Imported
    THEN [raised |-> FALSE, path |-> key]
    ELSE [raised |-> TRUE, path |-> key]

\* `if ttl and time.time() - timestamp > ttl`
Expired(ttl, now, timestamp) ==
    ttl \notin {NoTTL, 0} /\ now - timestamp > ttl

\* CacheManager.get: the files it leaves, what it returns, whether it raised.
\* _get_cache_path is called outside the try block.
CacheGet(files, key, ttl, now) ==
    LET cache_path == GetCachePath(key)
    IN  IF cache_path.raised
        THEN [files |-> files, result |-> "None", raised |-> TRUE]
        ELSE LET file == files[cache_path.path]
             IN  IF ~file.exists
                 THEN [files |-> files, result |-> "None", raised |-> FALSE]
                 ELSE IF Expired(ttl, now, file.timestamp)
                 THEN [files |-> [files EXCEPT ![cache_path.path] = NoFile],
                       result |-> "None", raised |-> FALSE]
                 ELSE [files |-> files, result |-> file.value, raised |-> FALSE]

\* CacheManager.set
CacheSet(files, key, value, now) ==
    LET cache_path == GetCachePath(key)
    IN  IF cache_path.raised
        THEN [files |-> files, raised |-> TRUE]
        ELSE [files |-> [files EXCEPT ![cache_path.path] =
                            [exists |-> TRUE, timestamp |-> now, value |-> value]],
              raised |-> FALSE]

CacheInit ==
    /\ MainAtRest
    /\ dl = DlAtRest
    /\ bp = BpAtRest
    /\ ex = ExAtRest
    /\ sm = SmAtRest
    /\ ct = CtAtRest
    /\ rl = RlAtRest
    /\ cm = [CmAtRest EXCEPT !.files = [k \in CacheKeys |-> NoFile],
                             !.latest = [k \in CacheKeys |-> NeverSet]]

\* cache.set(key, value); cm.latest remembers the call.
CmSet(key, value) ==
    /\ cm.files # <<>>
    /\ LET r == CacheSet(cm.files, key, value, cm.clock)
       IN  cm' = [cm EXCEPT
                    !.files = r.files,
                    !.latest[key] = [set |-> TRUE, at |-> cm.clock, value |-> value],
                    !.last = [op |-> "set", key |-> key, ttl |-> 0,
                              raised |-> r.raised, result |-> "None"]]
    /\ UNCHANGED allButCm

\* cache.get(key, ttl)
CmGet(key, ttl) ==
    /\ cm.files # <<>>
    /\ LET r == CacheGet(cm.files, key, ttl, cm.clock)
       IN  cm' = [cm EXCEPT
                    !.files = r.files,
                    !.last = [op |-> "get", key |-> key, ttl |-> ttl,
                              raised |-> r.raised, result |-> r.result]]
    /\ UNCHANGED allButCm

\* Time passes.
CmTick ==
    /\ cm.files # <<>>
    /\ cm.clock < MaxCacheClock
    /\ cm' = [cm EXCEPT !.clock = @ + 1]
    /\ UNCHANGED allButCm

CacheNext ==
    \/ \E key \in CacheKeys, value \in CacheValues : CmSet(key, value)
    \/ \E key \in CacheKeys, ttl \in TTLs : CmGet(key, ttl)
    \/ CmTick

CacheSpec == CacheInit /\ [][CacheNext]_vars

-----------------------------------------------------------------------------
(* Properties *)

CallsTo(fn) == {i \in DOMAIN calls : calls[i].fn = fn}
PipelineCalls ==
    {"download_papers", "batch_process_papers", "process_all_papers",
     "store_embeddings"}

\* C1: when the first search_similar call returns at least Config.MAX_PAPERS
\* hits, the query calls none of download_papers, batch_process_papers,
\* process_all_papers and store_embeddings, and the answer is synthesized from
\* that first result set.
C1_ServeFromStore ==
    (calls # <<>> /\ Len(calls[1].arg) >= config.MAX_PAPERS) =>
        /\ \A i \in DOMAIN calls : calls[i].fn \notin PipelineCalls
        /\ CallsTo("search_similar") = {1}
        /\ similar_papers = calls[1].arg
        /\ pc \in {"synthesize", "done"}
        /\ pc = "done" =>
              /\ Len(calls) = 2
              /\ calls[2].fn = "generate_research_response"
              /\ calls[2].arg = calls[1].arg
              /\ response \in {[kind |-> "synthesized", papers |-> calls[1].arg],
                               ApologyMessage}

C1_Witness ==
    /\ pc = "done"
    /\ Len(calls[1].arg) >= config.MAX_PAPERS
    /\ response = [kind |-> "synthesized", papers |-> calls[1].arg]

\* C2: search_similar on a store holding only the bootstrap placeholder
\* returns an empty sequence, and the placeholder is never an element of a
\* search_similar result.
C2_PlaceholderNeverSurfaced ==
    /\ \A i \in CallsTo("search_similar") :
          \A j \in DOMAIN calls[i].arg : calls[i].arg[j].metadata # EmptyMetadata
    /\ (Len(calls) = 1 /\ store.docs = <<PlaceholderDoc>>) => calls[1].arg = <<>>

\* C3: process_research_query returns the no-relevant-papers message exactly
\* when the final search-result set is empty; in particular it does when
\* acquisition returned no paper and the search of a store with nothing merged
\* returned no hit.
C3_NoPapersIffEmpty ==
    pc = "done" =>
        /\ (response = NoPapersMessage) <=> (similar_papers = <<>>)
        /\ ( /\ Len(calls) >= 2
             /\ calls[1].arg = <<>>
             /\ calls[2].fn = "download_papers" /\ calls[2].arg = <<>>
             /\ store.docs = <<PlaceholderDoc>> )
           => response = NoPapersMessage

C3_Witness ==
    /\ pc = "done"
    /\ Len(calls) = 2
    /\ calls[1].arg = <<>>
    /\ calls[2].fn = "download_papers" /\ calls[2].arg = <<>>
    /\ store.docs = <<PlaceholderDoc>>
    /\ response = NoPapersMessage

\* C4: when the LLM call fails during synthesis and the final result set is
\* not empty, the response is the fallback listing, one numbered entry per
\* retrieved paper in the order of the search results.  (Stated for result
\* sets made of merged papers only, which all carry a title.)
C4_FallbackOnLLMFailure ==
    ( /\ pc = "done"
      /\ similar_papers # <<>>
      /\ \A i \in DOMAIN similar_papers :
            similar_papers[i].metadata # EmptyMetadata
      /\ \E i \in CallsTo("generate_research_response") : ~calls[i].ok )
    => /\ response.kind = "fallback"
       /\ Len(response.papers) = Len(similar_papers)
       /\ \A i \in DOMAIN similar_papers :
             /\ response.papers[i].n = i
             /\ response.papers[i].title = similar_papers[i].metadata.title

\* C5: whatever fails, process_research_query returns a synthesized answer,
\* the fallback listing or the no-relevant-papers message; it never raises
\* and never returns any other text.
C5_ThreeKindsOfResult ==
    /\ pc # "raised"
    /\ pc = "done" =>
          response.kind \in {"synthesized", "fallback", "no_relevant_papers"}

\* C6: initializing VectorStore over a snapshot that exists but cannot be read
\* does not raise; it ends with a fresh store holding only the placeholder.
C6_InitSurvivesUnreadableSnapshot ==
    (last_op.op = "init" /\ SnapshotExists(disk) /\ ~SnapshotReadable(disk))
    => (~last_op.raised /\ proc = "up" /\ store.docs = <<PlaceholderDoc>>)

SearchCandidates(s, q) ==
    LET hits == SearchSimilar(s, q, Len(s.index), TRUE)
    IN  Cardinality({i \in DOMAIN hits : hits[i].metadata # EmptyMetadata})

StoreEmbeddingsSucceeds ==
    /\ Len(calls') = Len(calls) + 1
    /\ calls'[Len(calls')].fn = "store_embeddings"
    /\ calls'[Len(calls')].ok

\* C8: a successful store_embeddings call with N records raises the number of
\* search candidates of the resident store by exactly N, the placeholder not
\* being counted.
C8_MergeAddsExactlyN ==
    [][StoreEmbeddingsSucceeds =>
          \A q \in Queries :
             SearchCandidates(store', q)
                = SearchCandidates(store, q) + Len(calls'[Len(calls')].arg)]_vars

C8_Witness ==
    /\ pc = "research"
    /\ Len(calls[Len(calls)].arg) = 2
    /\ Len(store.index) = 4

C10_SavedAfterMutation ==
    ( \/ last_op.op = "store_embeddings" /\ ~last_op.raised
      \/ pc = "done" /\ CallsTo("store_embeddings") # {} )
    => /\ SnapshotExists(disk) /\ SnapshotReadable(disk)
       /\ disk.faiss.data = store.index
       /\ disk.pkl.data = store.docs

C10_Witness ==
    /\ pc = "done"
    /\ CallsTo("store_embeddings") # {}
    /\ Len(store.docs) >= 2
    /\ disk.pkl.data = store.docs

\* The stage of process_research_query the i-th collaborator call belongs to:
\* 1 LOCAL_SEARCH, 2 ACQUIRE, 3 EXTRACT, 4 SUMMARIZE, 5 EMBED+MERGE,
\* 6 RESEARCH, 7 SYNTHESIZE.
Stage(i) ==
    CASE calls[i].fn = "search_similar" -> IF i = 1 THEN 1 ELSE 6
      [] calls[i].fn = "download_papers" -> 2
      [] calls[i].fn = "batch_process_papers" -> 3
      [] calls[i].fn = "process_all_papers" -> 4
      [] calls[i].fn = "store_embeddings" -> 5
      [] calls[i].fn = "generate_research_response" -> 7

\* C11: within one query the stages run in the order LOCAL_SEARCH, ACQUIRE,
\* EXTRACT, SUMMARIZE, EMBED+MERGE, RESEARCH, SYNTHESIZE, each at most once
\* and none before the stages it depends on; a query that returns has made
\* exactly one synthesis step (the LLM call, or the no-results message
\* when the final result set is empty), and no stage runs after it.
C11_StagesInOrder ==
    /\ \A i, j \in DOMAIN calls : i < j => Stage(i) < Stage(j)
    /\ \A i \in DOMAIN calls :
          /\ i = 1 => Stage(i) = 1
          /\ Stage(i) \in 2..6 => (i > 1 /\ Stage(i - 1) = Stage(i) - 1)
    /\ pc # "done" =>
          (response = NoResponse /\ CallsTo("generate_research_response") = {})
    /\ pc = "done" =>
          /\ calls # <<>>
          /\ response # NoResponse
          /\ IF similar_papers # <<>>
             THEN CallsTo("generate_research_response") = {Len(calls)}
             ELSE /\ CallsTo("generate_research_response") = {}
                  /\ response = NoPapersMessage

C11_Witness ==
    /\ pc = "done"
    /\ Len(calls) = 7
    /\ \A i \in 1..7 : Stage(i) = i

\* download_papers returned, and returned no paper.
ZeroPapers ==
    /\ Len(calls) >= 2
    /\ calls[2].fn = "download_papers"
    /\ calls[2].ok
    /\ calls[2].arg = <<>>

\* C12: when download_papers returns no paper, batch_process_papers,
\* process_all_papers and store_embeddings are not called, the store and its
\* snapshot stay as they were, and the answer is synthesized from the result
\* of the first search, empty or not.
C12_ZeroPapersSkipsPipeline ==
    [][ZeroPapers' =>
          /\ store' = store
          /\ disk' = disk
          /\ \A i \in DOMAIN calls' :
                calls'[i].fn \notin {"batch_process_papers", "process_all_papers",
                                     "store_embeddings"}
          /\ CallsTo("search_similar")' = {1}
          /\ similar_papers' = calls'[1].arg
          /\ pc' \in {"synthesize", "done"}
          /\ pc' = "done" =>
                IF calls'[1].arg = <<>>
                THEN Len(calls') = 2 /\ response' = NoPapersMessage
                ELSE /\ Len(calls') = 3
                     /\ calls'[3].fn = "generate_research_response"
                     /\ calls'[3].arg = calls'[1].arg
                     /\ response' \in
                           {[kind |-> "synthesized", papers |-> calls'[1].arg],
                            GenerateFallbackResponse(calls'[1].arg),
                            ApologyMessage}]_vars

C12_Witness ==
    /\ ZeroPapers
    /\ pc = "done"
    /\ calls[1].arg # <<>>
    /\ Len(store.docs) >= 2
    /\ response = [kind |-> "synthesized", papers |-> calls[1].arg]

\* The store_embeddings calls of the query that returned normally.
MergedAt == {i \in CallsTo("store_embeddings") : calls[i].ok}

\* C13: when store_embeddings succeeded during the query, the result set
\* handed to synthesis is the one returned by the search made after the merge,
\* not the one of the first search; when no merge happened it is the result
\* of the first search.
C13_SynthesisUsesLatestSearch ==
    pc \in {"synthesize", "done"} =>
        /\ \A i \in MergedAt :
              /\ Len(calls) > i
              /\ calls[i + 1].fn = "search_similar"
              /\ similar_papers = calls[i + 1].arg
        /\ MergedAt = {} =>
              (CallsTo("search_similar") = {1} /\ similar_papers = calls[1].arg)
        /\ (pc = "done" /\ similar_papers # <<>>) =>
              /\ calls[Len(calls)].fn = "generate_research_response"
              /\ calls[Len(calls)].arg = similar_papers

C13_Witness ==
    /\ pc = "done"
    /\ MergedAt # {}
    /\ similar_papers # <<>>
    /\ similar_papers # calls[1].arg
    /\ calls[Len(calls)].arg = calls[Len(calls) - 1].arg

\* C14: the orchestrator removes the papers the store already holds before it
\* merges, so that after any sequence of queries (the same query twice, for
\* one) the store never holds two records for the same paper.
C14_NoDuplicateRecords ==
    \A i, j \in DOMAIN store.docs :
        i # j => store.docs[i].metadata # store.docs[j].metadata

\* C15: scenario 1.  From a store holding only the placeholder, with the
\* default threshold of 10, a query for which download_papers returns three
\* papers that are all extracted, summarized and merged ends with at most
\* three hits in the final result set, a snapshot on disk and a response.
C15_Scenario1 ==
    ( /\ pc = "done"
      /\ config = DefaultConfig
      /\ Len(calls) >= 5
      /\ Len(calls[2].arg) = 3
      /\ calls[5].fn = "store_embeddings" /\ calls[5].ok
      /\ Len(calls[5].arg) = 3
      /\ store.docs = <<PlaceholderDoc>> \o
                          [i \in 1..3 |-> [page_content |-> calls[5].arg[i].text,
                                           metadata |-> calls[5].arg[i].metadata]] )
    => /\ Len(similar_papers) <= 3
       /\ SnapshotExists(disk)
       /\ response # NoResponse

\* The names under which _extract_text files the text of a detected section.
HeaderSections ==
    {"introduction", "methods", "results", "discussion", "conclusion",
     "references"}

\* C19: a paper in which extraction detected no section header (nothing but
\* full_text, and possibly the title and the abstract, is non-empty) is
\* treated as having no sections: no summarization call is made for it, and
\* it contributes no summaries and no record to the store.
C19_NoHeadersNoSummaries ==
    \A i \in DOMAIN processed_papers :
        ( /\ CallsTo("process_all_papers") # {}
          /\ processed_papers[i].sections \cap HeaderSections = {} ) =>
            /\ SummaryCalls(processed_papers[i].sections) = {}
            /\ \A j \in DOMAIN summaries :
                  summaries[j].url # processed_papers[i].pdf_url
            /\ \A k \in CallsTo("store_embeddings") :
                  \A r \in DOMAIN calls[k].arg :
                     calls[k].arg[r].metadata.url # processed_papers[i].pdf_url

\* C16: download_paper makes at most Config.MAX_RETRIES attempts, and before
\* attempt k + 1 it has waited RETRY_DELAY * k since the failed attempt k,
\* whichever way that attempt failed (timeout, other exception, status other
\* than 200).
C16_BackoffAfterEveryFailure ==
    \A i \in DOMAIN dl.task :
        /\ dl.task[i].attempt <= MAX_RETRIES
        /\ (dl.task[i].state = "running" /\ dl.task[i].attempt >= 1) =>
              dl.task[i].slept = RETRY_DELAY * dl.task[i].attempt

\* C17: a paper whose download fails (the retries exhausted, or an exception)
\* is the only one dropped: download_papers returns, in the order of the
\* search results, exactly the papers whose download succeeded, and it does
\* not raise on account of a download.
C17_FailedDownloadsOnlyDropped ==
    /\ dl.pc = "returned" =>
          dl.result = SelectPositions(dl.found,
                         {i \in DOMAIN dl.task : dl.task[i].state = "paper"}, 1)
    /\ dl.pc = "raised" => dl.task = <<>>

C17_Witness ==
    /\ dl.pc = "returned"
    /\ \E i \in DOMAIN dl.task :
          dl.task[i].state = "none" /\ dl.task[i].attempt = MAX_RETRIES
    /\ dl.result # <<>>
    /\ Len(dl.result) < Len(dl.found)

\* C18: batch_process_papers drops a paper whose extraction raises or whose
\* local file is missing and goes on with the others; what it returns is the
\* subsequence of its input that was extracted, and it never raises.
C18_BatchKeepsTheExtracted ==
    /\ bp.pc \in {"idle", "loop", "returned"}
    /\ bp.pc = "returned" =>
          LET good == {i \in DOMAIN bp.input : bp.input[i].condition = "good"}
          IN  /\ Len(bp.out) = Cardinality(good)
              /\ bp.out = SelectPositions(
                              [i \in DOMAIN bp.input |->
                                  WithSections(bp.input[i].paper)], good, 1)

C18_Witness ==
    /\ bp.pc = "returned"
    /\ Len(bp.input) = 2
    /\ bp.input[1].condition = "unreadable_pdf"
    /\ bp.input[2].condition = "good"
    /\ bp.out = <<WithSections(bp.input[2].paper)>>

\* C20: whatever the pages, the dict _extract_text returns has all nine keys,
\* and its full_text is the text of all pages, in page order, joined by line
\* breaks, whichever section headers were or were not detected.
C20_NineKeysAndFullText ==
    ex.pc = "returned" =>
        /\ DOMAIN ex.sections = {SectionNames[i] : i \in DOMAIN SectionNames}
        /\ Cardinality(DOMAIN ex.sections) = 9
        /\ ex.sections["full_text"] = JoinLines(ex.doc)

C20_Witness ==
    /\ ex.pc = "returned"
    /\ Len(ex.doc) = 2
    /\ ex.current_section = "none"
    /\ ex.sections["abstract"] # EmptyString
    /\ \A k \in DOMAIN SectionPatterns : ex.sections[SectionPatterns[k]] = EmptyString
    /\ ex.sections["full_text"] = ex.doc[1] \o ex.doc[2]

\* The lines of a page that are section headers.
HeaderLinesOf(text) == {i \in DOMAIN text : text[i] \in HeaderSections}

\* C21: when several header patterns match on a page, the cursor after the
\* page is the section whose header comes last in the page's text.
C21_LastHeaderOnPageWins ==
    (ex.pc \in {"pages", "returned"} /\ ex.page_num >= 1) =>
        LET text == ex.doc[ex.page_num]
        IN  HeaderLinesOf(text) # {} =>
               ex.current_section = text[SetMax(HeaderLinesOf(text))]

\* A pass of the loop over the pages has just been made.
PageProcessed ==
    /\ ex.pc = "pages"
    /\ ex'.pc = "pages"
    /\ ex'.page_num = ex.page_num + 1

\* C22 as claimed: a page changes the text of at most one section of the
\* dict, and only by appending to it.
C22_OnePageOneSection ==
    [][PageProcessed =>
          /\ Cardinality({name \in DOMAIN ex.sections :
                             ex'.sections[name] # ex.sections[name]}) <= 1
          /\ \A name \in DOMAIN ex.sections :
                \/ IsPrefix(ex.sections[name], ex'.sections[name])
                \/ ex.sections[name] = EmptyString]_vars

\* C22 as amended: a page changes the accumulated text of at most one header
\* section, the one current after the page, by appending the page's text to
\* it; a section the cursor has left keeps its text.  Besides, the first page
\* (and no other) sets title and abstract, and no page sets full_text.
C22_OnePageOneHeaderSection ==
    [][PageProcessed =>
          /\ \A name \in HeaderSections :
                IF name = ex'.current_section
                THEN ex'.sections[name] = ex.sections[name] \o ex.doc[ex'.page_num]
                ELSE ex'.sections[name] = ex.sections[name]
          /\ ex.page_num > 0 =>
                /\ ex'.sections["title"] = ex.sections["title"]
                /\ ex'.sections["abstract"] = ex.sections["abstract"]
          /\ ex'.sections["full_text"] = EmptyString]_vars

C22_Witness ==
    /\ ex.pc = "pages"
    /\ ex.page_num = 2
    /\ ex.current_section = "discussion"
    /\ ex.sections["results"] = EmptyString \o ex.doc[1]
    /\ ex.sections["discussion"] = EmptyString \o ex.doc[2]

\* The cursor after each of the first n pages of doc, over again.
RECURSIVE CursorHistory(_, _)
CursorHistory(doc, n) ==
    IF n = 0 THEN <<>>
    ELSE LET before == CursorHistory(doc, n - 1)
             last == IF n = 1 THEN "none" ELSE before[n - 1]
             found == {k \in DOMAIN SectionPatterns :
                         \E i \in DOMAIN doc[n] : doc[n][i] = SectionPatterns[k]}
         IN  Append(before, IF found = {} THEN last
                            ELSE SectionPatterns[SetMax(found)])

\* "" followed, each after a line break, by the pages of doc[1..n] whose
\* cursor is name, in page order.
RECURSIVE PagesFiledUnder(_, _, _, _)
PagesFiledUnder(name, doc, cursors, n) ==
    IF n = 0 THEN EmptyString
    ELSE PagesFiledUnder(name, doc, cursors, n - 1)
            \o (IF cursors[n] = name THEN doc[n] ELSE <<>>)

\* C23: section accumulation neither loses nor duplicates text: each header
\* section holds, once each and in page order, the text of exactly the pages
\* after whose header scan it was the current section; so a one-page document
\* with one section keyword has its text in that section.
C23_EveryPageFiledOnce ==
    ex.pc \in {"pages", "returned"} =>
        LET cursors == CursorHistory(ex.doc, ex.page_num)
        IN  \A name \in HeaderSections :
               ex.sections[name] = PagesFiledUnder(name, ex.doc, cursors, ex.page_num)

C23_Witness ==
    /\ ex.pc = "returned"
    /\ Len(ex.doc) = 2
    /\ ex.doc[1] = <<"results", "prose">>
    /\ ex.doc[2] = <<"prose">>
    /\ ex.sections["results"] = <<"", "results", "prose", "prose">>

\* C24: clean_text is idempotent: applied to its own result it returns that
\* result, for every argument, among them those in which a removed character
\* stands between two white-space characters.
C24_CleanTextIdempotent ==
    ct.pc = "twice" => ct.twice = ct.once

\* The sections of the paper titled t among those being summarized.
SectionsOfTitle(t) == sm.papers[t].sections

\* C25: in every set of summaries produced by summarize_paper the overall
\* summary is present only if the paper's abstract or introduction was not
\* empty, and there is no summary of full_text or of an empty section.
SummarySetWellFormed(keys, sections) ==
    /\ "overall" \in keys =>
            sections["abstract"] # "empty" \/ sections["introduction"] # "empty"
    /\ "full_text" \notin keys
    /\ \A n \in keys \ {"overall"} : sections[n] # "empty"
C25_OverallOnlyWithAbstractOrIntroduction ==
    /\ sm.pc \in {"section", "overall"} =>
            SummarySetWellFormed(sm.summaries, sm.papers[sm.i].sections)
    /\ \A j \in 1..Len(sm.out) :
            SummarySetWellFormed(sm.out[j].summaries,
                                 SectionsOfTitle(sm.out[j].title))
C25_Witness ==
    /\ sm.pc = "returned"
    /\ \E j \in 1..Len(sm.out) :
            /\ "overall" \in sm.out[j].summaries
            /\ SectionsOfTitle(sm.out[j].title)["introduction"] = "text"
    /\ \E j \in 1..Len(sm.out) :
            /\ sm.out[j].summaries = {"title"}
            /\ SectionsOfTitle(sm.out[j].title)["full_text"] = "text"

\* C28: a failed LLM request costs only the summary it was made for: every
\* other summary of that paper, its overall summary and the summaries of the
\* other papers are in the list process_all_papers returns, and it returns.
RequestsOf(i) ==
    LET sections == sm.papers[i].sections
    IN  IF DOMAIN sections = {} THEN {}
        ELSE {n \in DOMAIN sections :
                    n # "full_text" /\ sections[n] = "text"}
             \cup (IF sections["abstract"] # "empty"
                      \/ sections["introduction"] # "empty"
                   THEN {"overall"} ELSE {})
C28_FailureCostsOneSummary ==
    sm.pc \in {"done", "returned"} =>
        \A i \in 1..Len(sm.papers) :
            \A n \in RequestsOf(i) :
                <<i, n>> \notin sm.failed =>
                    \E j \in 1..Len(sm.out) : /\ sm.out[j].title = i
                                              /\ n \in sm.out[j].summaries
C28_Witness ==
    /\ sm.pc = "returned"
    /\ sm.failed = {<<1, "introduction">>}
    /\ Len(sm.out) = 2
    /\ sm.out[1].title = 1
    /\ sm.out[1].summaries = {"results", "overall"}
    /\ sm.out[2].summaries = {"introduction", "results", "overall"}

\* The summarized papers of the query that have an overall summary.
WithOverall == {j \in DOMAIN summaries : "overall" \in summaries[j].summaries}

\* C26: store_embeddings is handed one record per summarized paper that has
\* an overall summary, and is not called when there is none.
C26_OneRecordPerOverallSummary ==
    /\ \A c \in CallsTo("store_embeddings") :
            Len(calls[c].arg) = Cardinality(WithOverall)
    /\ (CallsTo("process_all_papers") # {} /\ pc # "merge") =>
            (CallsTo("store_embeddings") # {} <=> WithOverall # {})
C26_Witness ==
    /\ \E c \in CallsTo("store_embeddings") : Len(calls[c].arg) = 1
    /\ Len(summaries) = 2
    /\ Cardinality(WithOverall) = 1

\* C27: every record handed to store_embeddings has its title, authors, url,
\* summary and text from one acquired paper, whichever papers were dropped
\* on the way.
C27_RecordDescribesOnePaper ==
    \A c \in CallsTo("store_embeddings") :
        \A k \in DOMAIN calls[c].arg :
            LET r == calls[c].arg[k]
            IN  \E p \in DOMAIN papers :
                    /\ r.metadata.title = papers[p].title
                    /\ r.metadata.authors = papers[p].authors
                    /\ r.metadata.url = papers[p].pdf_url
                    /\ r.metadata.summary = OverallSummary(papers[p].title)
                    /\ r.text = OverallSummary(papers[p].title)
                    /\ \E j \in WithOverall : summaries[j].title = papers[p].title
C27_Witness ==
    /\ Len(papers) = 3
    /\ Len(processed_papers) = 2
    /\ Len(summaries) = 2
    /\ ~("overall" \in summaries[1].summaries)
    /\ \E c \in CallsTo("store_embeddings") :
            /\ Len(calls[c].arg) = 1
            /\ calls[c].arg[1].metadata.title = summaries[2].title
            /\ calls[c].arg[1].text = OverallSummary(summaries[2].title)

\* C29: the first search returns the nearest records up to the limit,
\* whatever their scores, and whether papers are downloaded depends on the
\* number of hits alone.
C29_GateCountsHitsOnly ==
    /\ \A c \in CallsTo("search_similar") :
            (c = Len(calls) /\ calls[c].ok) =>
                Len(calls[c].arg) = Min(config.MAX_RESULTS, Len(store.index))
    /\ (Len(calls) = 1 /\ calls[1].fn = "search_similar") =>
            /\ pc = "acquire" <=> Len(calls[1].arg) < config.MAX_PAPERS
            /\ pc \in {"acquire", "synthesize"}
C29_Witness ==
    /\ Len(calls) = 1 /\ calls[1].fn = "search_similar"
    /\ pc = "synthesize"
    /\ Len(calls[1].arg) = config.MAX_PAPERS
    /\ \E i, j \in DOMAIN calls[1].arg :
            /\ calls[1].arg[i].score < calls[1].arg[j].score
            /\ calls[1].arg[j].score < 0

\* C30: with the default configuration the first search returns fewer hits
\* than MAX_PAPERS however many records the store holds, so download_papers
\* is the call that follows it in every query.
C30_DefaultGateAlwaysDownloads ==
    (Len(calls) >= 1 /\ calls[1].fn = "search_similar") =>
        /\ Len(calls[1].arg) < MAX_PAPERS
        /\ Len(calls) = 1 => pc = "acquire"
        /\ Len(calls) >= 2 => calls[2].fn = "download_papers"
C30_Witness ==
    /\ Len(store.index) > MAX_PAPERS
    /\ Len(calls) >= 2
    /\ calls[1].fn = "search_similar"
    /\ Len(calls[1].arg) = MAX_RESULTS
    /\ calls[2].fn = "download_papers"

\* C31: a paper download_paper returns with a local_path has a completely
\* downloaded file behind it; a file left partly written by a fetch that
\* failed is never returned as a download by a later call.
C31_ReturnedPaperHasCompleteFile ==
    \A i \in DOMAIN dl.task :
        dl.task[i].state = "paper" =>
            dl.files[dl.found[i].arxiv_id] = "complete"

StoreEmbeddingsRaises ==
    /\ Len(calls') = Len(calls) + 1
    /\ calls'[Len(calls')].fn = "store_embeddings"
    /\ ~calls'[Len(calls')].ok

\* The snapshot on disk holds the records of the resident index.
SnapshotAgrees(s, d) ==
    /\ SnapshotExists(d) /\ SnapshotReadable(d)
    /\ d.faiss.data = s.index
    /\ d.pkl.data = s.docs

\* C32: a store_embeddings call that raises leaves the resident index with
\* the records it had before the call, and a snapshot that agreed with the
\* index before the call agrees with it after.
C32_ErrorLeavesStoreUnchanged ==
    [][StoreEmbeddingsRaises =>
          /\ store' = store
          /\ SnapshotAgrees(store, disk) => SnapshotAgrees(store', disk')]_vars

\* C33: a search_similar whose similarity search fails returns the empty list
\* and does not raise; the query goes on as with no local hit: papers are
\* downloaded after the first search, and the answer is the
\* no-relevant-papers message when the final result set is empty.
C33_FailedSearchIsNoHit ==
    /\ \A c \in CallsTo("search_similar") :
            ~calls[c].ok =>
                /\ calls[c].arg = <<>>
                /\ c = Len(calls) => (similar_papers = <<>> /\ pc # "raised")
    /\ (Len(calls) = 1 /\ calls[1].fn = "search_similar" /\ calls[1].arg = <<>>)
            => pc = "acquire"
    /\ (pc = "done" /\ similar_papers = <<>>) => response = NoPapersMessage
C33_Witness ==
    /\ pc = "done"
    /\ Len(calls) = 2
    /\ calls[1].fn = "search_similar" /\ ~calls[1].ok
    /\ calls[2].fn = "download_papers"
    /\ Len(store.index) >= 2
    /\ response = NoPapersMessage

\* The acquire() calls that completed in the window of length rl.period
\* starting at t, its end excluded.
CompletedIn(t) ==
    {i \in DOMAIN rl.completed :
        t <= rl.completed[i] /\ rl.completed[i] < t + rl.period}

RlWindowHolds == \A t \in 0..rl.clock : Cardinality(CompletedIn(t)) <= rl.calls
RlListHolds == Len(rl.timestamps) <= rl.calls
RlNoIndexError == \A c \in DOMAIN rl.caller : rl.caller[c].pc # "raised"

\* C34: whatever the number of callers awaiting acquire(), at most `calls`
\* acquire() calls complete within any window of length `period`, and the
\* timestamp list never holds more than `calls` entries.
C34_AtMostCallsPerPeriod == RlWindowHolds /\ RlListHolds

\* The entry set last for the key of the last call is older than ttl.
OlderThan(entry, ttl) ==
    ttl # NoTTL /\ cm.clock - entry.at > ttl

\* C35: get(key, ttl) returns the value set last for key when that entry is
\* not older than ttl or no ttl is given, returns None and removes the entry
\* when it is older, and returns None for a key never set; neither set nor
\* get raises.
C35_GetReturnsLatestSet ==
    /\ ~cm.last.raised
    /\ cm.last.op = "get" =>
          LET entry == cm.latest[cm.last.key]
          IN  /\ ~entry.set => cm.last.result = "None"
              /\ (entry.set /\ ~OlderThan(entry, cm.last.ttl)) =>
                    cm.last.result = entry.value
              /\ (entry.set /\ OlderThan(entry, cm.last.ttl)) =>
                    /\ cm.last.result = "None"
                    /\ ~cm.files[cm.last.key].exists
====
